---- MODULE Spec2Model ----
(***************************************************************************)
(* Verification model of the supermind_app search / cache / pagination     *)
(* core: the Cards controller (components/cards.tsx), the App shell that   *)
(* owns the search term and the reload key (App.tsx), the search bar's     *)
(* debounce (components/searchbar.tsx) and the cache service               *)
(* (services/cacheService.ts).                                             *)
(*                                                                         *)
(* Strings are sequences of one-character strings, so that trim(),         *)
(* toLowerCase(), includes() and .length are computed, not assumed.        *)
(* Sizes that the program fixes at 50 / 100 / 20 / 10 items, 500000 bytes  *)
(* and 5 minutes are scaled down (see the bounds below); every comparison  *)
(* the code makes with them is kept.                                       *)
(***************************************************************************)
EXTENDS Integers, Sequences, FiniteSets, TLC

(***************************************************************************)
(* Bounds of the model and scaled program sizes.                           *)
(***************************************************************************)
NumRows == 3            \* rows that exist in the authoritative store's universe
PAGE_SIZE == 2          \* cards.tsx PAGE_SIZE (50), scaled
MAX_CACHE_SIZE == 2     \* cacheService.ts MAX_CACHE_SIZE (100), scaled
REDUCED_COUNT == 1      \* cacheService.ts slice(0, 20), scaled
MINIMAL_COUNT == 1      \* cacheService.ts slice(0, 10), scaled
BYTE_BUDGET == 11       \* cacheService.ts 500000 bytes, scaled
CACHE_EXPIRY == 2       \* cacheService.ts 5 * 60 * 1000 ms, in clock ticks
MaxNow == 3             \* the clock stops here
SHORT_QUERY_CUTOFF == 3 \* cards.tsx: searchTerm.length <= 3


Min(a, b) == IF a <= b THEN a ELSE b

(***************************************************************************)
(* Strings.                                                                *)
(***************************************************************************)
Lower(c) == CASE c = "A" -> "a" [] c = "B" -> "b" [] OTHER -> c

toLowerCase(s) == [i \in 1..Len(s) |-> Lower(s[i])]

RECURSIVE trimStart(_)
trimStart(s) == IF s # <<>> /\ Head(s) = " " THEN trimStart(Tail(s)) ELSE s

RECURSIVE trimEnd(_)
trimEnd(s) ==
    IF s # <<>> /\ s[Len(s)] = " " THEN trimEnd(SubSeq(s, 1, Len(s) - 1)) ELSE s

trim(s) == trimEnd(trimStart(s))

includes(s, q) == \E i \in 1..(Len(s) + 1) :
                     /\ i + Len(q) - 1 <= Len(s)
                     /\ SubSeq(s, i, i + Len(q) - 1) = q

(***************************************************************************)
(* Rows of the content table.  A field the row does not have is <<>> for   *)
(* text and 0 for a timestamp.                                             *)
(***************************************************************************)
Ids == 1..NumRows
Users == {"A", "B"}

OwnerOf(i) == IF i = NumRows THEN "B" ELSE "A"

TitleOf(i) == CASE i = 1 -> <<"A", "b">>
                [] i = 2 -> <<"c", "d">>
                [] i = 3 -> <<"a", "b", "c", "d">>
                [] OTHER -> <<"z">>

NotesOf(i) == CASE i = 2 -> <<"a", "b", "c", "d">>
                [] OTHER -> <<>>

TagsOf(i) == CASE i = 3 -> <<"a">> [] OTHER -> <<>>

UpdatedOf(i) == IF i = 1 THEN NumRows + 1 ELSE 0

Row(i) == [id |-> i, user_id |-> OwnerOf(i), title |-> TitleOf(i),
           thumbnail_url |-> i, date_added |-> i, updated_at |-> UpdatedOf(i),
           user_notes |-> NotesOf(i), tags |-> TagsOf(i), title_embedding |-> i]

Rows == {Row(i) : i \in Ids}

(***************************************************************************)
(* services/cacheService.ts                                                *)
(***************************************************************************)
take(s, n) == SubSeq(s, 1, Min(Len(s), n))

\* the projection that also copies the embedding
CacheItem_keepsEmbedding(item) ==
    [id |-> item.id, title |-> item.title, thumbnail_url |-> item.thumbnail_url,
     date_added |-> item.date_added, updated_at |-> item.updated_at,
     user_notes |-> item.user_notes, tags |-> item.tags,
     title_embedding |-> item.title_embedding]

\* sanitizeDataForCache: the first MAX_CACHE_SIZE items, essential fields only
CacheItem(item) == [id |-> item.id, title |-> item.title,
                    thumbnail_url |-> item.thumbnail_url,
                    date_added |-> item.date_added, updated_at |-> item.updated_at,
                    user_notes |-> item.user_notes, tags |-> item.tags]

sanitizeDataForCache(data) ==
    [i \in 1..Min(Len(data), MAX_CACHE_SIZE) |-> CacheItem(data[i])]

\* the minimal fallback projection of setCache's catch block
MinimalItem(item) == [id |-> item.id, title |-> item.title,
                      thumbnail_url |-> item.thumbnail_url]

\* the fallback projection without slice(0, 10)
minimalData_noSlice(data) == [i \in 1..Len(data) |-> MinimalItem(data[i])]

minimalData(data) == [i \in 1..Min(Len(data), MINIMAL_COUNT) |-> MinimalItem(data[i])]

\* bytes of JSON.stringify of one cached item: a fixed part plus its text
TextLen(item, f) == IF f \in DOMAIN item THEN Len(item[f]) ELSE 0

ItemBytes(item) == 1 + TextLen(item, "title") + TextLen(item, "user_notes")
                     + TextLen(item, "tags")

RECURSIVE SumBytes(_)
SumBytes(s) == IF s = <<>> THEN 0 ELSE ItemBytes(Head(s)) + SumBytes(Tail(s))

\* new Blob([JSON.stringify(cacheData)]).size
sizeInBytes(data) == 1 + SumBytes(data)

CacheData(data, t) == [data |-> data, timestamp |-> t, version |-> 1]

\* An optional value is <<>> (null / no entry) or <<v>>.
None == <<>>
Some(v) == <<v>>

\* setCache keeping the last REDUCED_COUNT items when over the budget
setCache_keepsTail(stored, data, t, writeOk, removeOk, fallbackOk) ==
    LET sanitizedData == sanitizeDataForCache(data)
        n == Len(sanitizedData)
        reducedData == SubSeq(sanitizedData, n - Min(n, REDUCED_COUNT) + 1, n)
    IN  IF writeOk
        THEN IF sizeInBytes(sanitizedData) > BYTE_BUDGET
             THEN <<[data |-> reducedData, timestamp |-> t, version |-> 1]>>
             ELSE <<[data |-> sanitizedData, timestamp |-> t, version |-> 1]>>
        ELSE IF fallbackOk
             THEN <<[data |-> minimalData(data), timestamp |-> t, version |-> 1]>>
             ELSE IF removeOk THEN <<>> ELSE stored

\* clearCache: what it leaves under CACHE_KEY.  removeOk: removeItem succeeds;
\* its failure is caught and logged
clearCache(stored, removeOk) == IF removeOk THEN None ELSE stored

\* What setCache leaves under CACHE_KEY.  writeOk: the setItem of the try block
\* succeeds; removeOk: the removeItem of clearCache in the catch block
\* succeeds; fallbackOk: the setItem of the catch block succeeds.
setCache(stored, data, t, writeOk, removeOk, fallbackOk) ==
    LET sanitizedData == sanitizeDataForCache(data)
        reducedData   == take(sanitizedData, REDUCED_COUNT)
    IN  IF writeOk
        THEN IF sizeInBytes(sanitizedData) > BYTE_BUDGET
             THEN Some(CacheData(reducedData, t))
             ELSE Some(CacheData(sanitizedData, t))
        ELSE IF fallbackOk THEN Some(CacheData(minimalData(data), t))
             ELSE clearCache(stored, removeOk)

\* how a setCache call ends for its caller: every await of the function is
\* inside a try block whose catch block logs
setCacheEnds(writeOk, fallbackOk) ==
    IF writeOk THEN "resolved"
    ELSE IF fallbackOk THEN "resolved"
         ELSE "resolved"   \* console.error('Failed to store even minimal cache')

\* A stored value is modelled by what JSON.parse makes of it: a record, or
\* Unparseable when JSON.parse throws.
Unparseable == [unparseable |-> TRUE]

\* JSON.parse(cache) returns
parses(value) == value # Unparseable

\* cacheData.data.length does not throw
hasData(value) == "data" \in DOMAIN value

\* the TTL test with >= for >
isExpired_atTTL(cacheData, t) ==
    "timestamp" \in DOMAIN cacheData /\ t - cacheData.timestamp >= CACHE_EXPIRY

\* Date.now() - cacheData.timestamp > CACHE_EXPIRY; without a timestamp the
\* difference is NaN and the test is false
isExpired(cacheData, t) ==
    "timestamp" \in DOMAIN cacheData /\ t - cacheData.timestamp > CACHE_EXPIRY

\* getCache: the value returned, and what it leaves under CACHE_KEY.  The
\* catch block (JSON.parse or data.length threw) clears the cache and returns
\* null.
getCacheResult(stored, t) ==
    IF stored = None THEN None
    ELSE IF ~parses(stored[1]) THEN None
    ELSE IF isExpired(stored[1], t) THEN None
    ELSE IF ~hasData(stored[1]) THEN None
    ELSE Some(stored[1].data)

getCacheStorage(stored, t) ==
    IF stored = None THEN None
    ELSE IF ~parses(stored[1]) THEN None
    ELSE IF isExpired(stored[1], t) THEN None
    ELSE IF ~hasData(stored[1]) THEN None
    ELSE stored

\* getCacheInfo: its catch block reports exists: false
getCacheInfo(stored) ==
    IF stored = None THEN [exists |-> FALSE, size |-> 0, itemCount |-> 0]
    ELSE IF ~parses(stored[1]) \/ ~hasData(stored[1])
    THEN [exists |-> FALSE, size |-> 0, itemCount |-> 0]
    ELSE [exists |-> TRUE, size |-> sizeInBytes(stored[1].data),
          itemCount |-> Len(stored[1].data)]

(***************************************************************************)
(* components/cards.tsx: pure parts.                                       *)
(***************************************************************************)
SortTypes == {"newest", "oldest", "modified"}

Field(item, f) == IF f \in DOMAIN item THEN item[f] ELSE <<>>

\* a.updated_at ? new Date(a.updated_at) : new Date(a.date_added)
modifiedDate(item) == IF item.updated_at # 0 THEN item.updated_at ELSE item.date_added

\* the comparison function of sortCards
compare(a, b, order) ==
    CASE order = "newest"   -> b.date_added - a.date_added
      [] order = "oldest"   -> a.date_added - b.date_added
      [] order = "modified" -> modifiedDate(b) - modifiedDate(a)
      [] OTHER              -> 0

RECURSIVE insertSorted(_, _, _)
insertSorted(s, x, order) ==
    IF s = <<>> THEN <<x>>
    ELSE IF compare(Head(s), x, order) <= 0
         THEN <<Head(s)>> \o insertSorted(Tail(s), x, order)
         ELSE <<x>> \o s

RECURSIVE sortInto(_, _, _)
sortInto(done, rest, order) ==
    IF rest = <<>> THEN done
    ELSE sortInto(insertSorted(done, Head(rest), order), Tail(rest), order)

\* [...data].sort(...): a stable sort of a copy
sortCards(data, order) == sortInto(<<>>, data, order)

\* the substring scan of doSearch (short queries and the catch block)
matches(item, q) ==
    \/ (Field(item, "title") # <<>> /\ includes(toLowerCase(Field(item, "title")), q))
    \/ (Field(item, "user_notes") # <<>>
          /\ includes(toLowerCase(Field(item, "user_notes")), q))
    \/ (Field(item, "tags") # <<>> /\ includes(toLowerCase(Field(item, "tags")), q))

\* the scan that looks at the title only
localResults_titleOnly(cards, searchTerm_) ==
    SelectSeq(cards, LAMBDA item :
        includes(toLowerCase(Field(item, "title")), toLowerCase(searchTerm_)))

localResults(cards, searchTerm_) ==
    LET q == toLowerCase(searchTerm_)
    IN  SelectSeq(cards, LAMBDA item : matches(item, q))

\* services/api.ts getVideoData: every row of the signed-in user, newest first
\* (the function takes no parameters: the offset and the limit that cards.tsx
\* passes are not used)
getVideoData(user, rows) ==
    SelectSeq([i \in 1..NumRows |-> Row(NumRows + 1 - i)],
              LAMBDA r : r.id \in rows /\ r.user_id = user)

\* what the ranking engine may answer: nothing, or one row of the user
searchAnswers(user, rows) ==
    {<<>>} \cup {<<Row(i)>> : i \in {j \in rows : OwnerOf(j) = user}}

(***************************************************************************)
(* State.                                                                  *)
(***************************************************************************)
VARIABLES
    storage,    \* AsyncStorage value under CACHE_KEY: None or Some(CacheData)
    now,        \* Date.now(), in ticks
    \* record of the cache service calls made in CacheSpec
    cLast,      \* the last call: "none", "set", "get", "info", "clear", "tick"
    cInput,     \* argument of the latest setCache since the last clear
    cSet,       \* [at, ok, over, removed, fallback, ended]: time and storage
                \* outcomes of the latest setCache, how it ended, and
                \* whether it overwrote an entry
    cGot,       \* value returned by getCache, while it is the last call
    cEvict,     \* the last getCache found an entry older than the TTL
    cInfo,      \* value returned by getCacheInfo, while it is the last call
    \* search bar and App shell
    typedValue,   \* SearchBar typedValue
    searchTimer,  \* pending callbacks of searchTimerRef: the texts they carry
    appTimer,     \* pending callbacks of App's debounce(handleSearch)
    searchTerm,   \* App searchTerm, the query handed to Cards
    \* record of one run of keystrokes in DebounceSpec
    dBurst,       \* "idle", "pure" (keystrokes only, each before the previous
                  \* timer fired) or "mixed"
    dLast,        \* text of the latest text-change event
    dLog,         \* queries given to setSearchTerm since the run began
    \* App shell, settings and backend
    session,        \* App session: "none" or the signed-in user
    preloadedData,  \* App preloadedData (Cards initialData): None or Some(list)
    sortOrder,      \* SettingsContext sortOrder
    store,          \* ids of the rows in the content table
    \* the mounted Cards instance
    cardsData, filteredData, error,
    searchIdRef,
    currentPage, hasMore, loadingMore, isLoading,
    \* calls awaiting their reply; live: made by the Cards instance that is
    \* still mounted
    searches,       \* performSearch: [id, term, cards, user, superseded]
    fetches,        \* fetchData at getVideoData: [force, order, cached, user, live, refresh]
    mores,          \* loadMoreCards at getVideoData: [page, cards, order, user, live]
    deletes,        \* handleDelete at deleteContent: [id, cards, user, live]
    staleApplied,   \* the last step displayed the result of a search that a
                    \* later dispatch had superseded
    dropped,        \* the last step was a loadMoreCards that returned at its guard
    \* the database behind search_content
    content,        \* rows of the content table the ranking engine reads
    lastQuery,      \* search_query of the last search_content call
    lastUser,       \* user_id_input of the last search_content call
    returned        \* None, or Some(rows returned by the last call)

cacheVars == <<storage, now>>
cacheLog == <<cLast, cInput, cSet, cGot, cEvict, cInfo>>
barVars == <<typedValue, searchTimer, appTimer>>
barLog == <<dBurst, dLast, dLog>>

appVars == <<session, preloadedData, sortOrder, store>>
cardVars == <<cardsData, filteredData, error, searchIdRef, currentPage, hasMore,
              loadingMore, isLoading>>
callVars == <<searches, fetches, mores, deletes, staleApplied, dropped>>
ctlVars == <<appVars, cardVars, callVars>>
rankVars == <<content, lastQuery, lastUser, returned>>

vars == <<cacheVars, cacheLog, barVars, searchTerm, barLog, ctlVars, rankVars>>

Tick == /\ now < MaxNow
        /\ now' = now + 1

(***************************************************************************)
(* CacheSpec: the cache service called with arbitrary lists at arbitrary   *)
(* times.                                                                  *)
(***************************************************************************)
RECURSIVE SubLists(_)
\* the lists obtained from s by leaving items out
SubLists(s) ==
    IF s = <<>> THEN {<<>>}
    ELSE LET rest == SubLists(Tail(s))
         IN  rest \cup {<<Head(s)>> \o t : t \in rest}

\* lists handed to setCache: any selection of rows, oldest or newest first
CacheInputs == SubLists([i \in 1..NumRows |-> Row(i)])
                 \cup SubLists([i \in 1..NumRows |-> Row(NumRows + 1 - i)])

NoInfo == [exists |-> FALSE, size |-> 0, itemCount |-> 0]

CacheLogInit ==
    /\ cLast = "none" /\ cInput = None
    /\ cSet = [at |-> 0, ok |-> FALSE, over |-> FALSE, removed |-> FALSE,
               fallback |-> FALSE, ended |-> "resolved"]
    /\ cGot = None /\ cEvict = FALSE /\ cInfo = NoInfo

BarInit == /\ typedValue = <<>> /\ searchTimer = {} /\ appTimer = {}
           /\ searchTerm = <<>>
           /\ dBurst = "idle" /\ dLast = <<>> /\ dLog = <<>>

\* no search_content call made, an empty content table
RankIdle == /\ content = {} /\ lastQuery = <<>> /\ lastUser = "none"
            /\ returned = None

\* no session, no Cards instance, nothing in flight
CtlIdle == /\ session = "none" /\ preloadedData = None /\ sortOrder = "newest"
           /\ store = Ids
           /\ cardsData = <<>> /\ filteredData = <<>> /\ error = FALSE
           /\ searchIdRef = 0 /\ currentPage = 0 /\ hasMore = TRUE
           /\ loadingMore = FALSE /\ isLoading = FALSE
           /\ searches = {} /\ fetches = {} /\ mores = {} /\ deletes = {}
           /\ staleApplied = FALSE /\ dropped = FALSE

CacheInit == /\ storage = None
             /\ now = 0
             /\ CacheLogInit
             /\ RankIdle
             /\ BarInit
             /\ CtlIdle

\* what the storage calls of one setCache do: when the first setItem
\* succeeds, removeItem and the second setItem are not called
StorageOutcomes ==
    {[writeOk |-> TRUE, removeOk |-> TRUE, fallbackOk |-> TRUE]}
    \cup [writeOk : {FALSE}, removeOk : BOOLEAN, fallbackOk : BOOLEAN]

CSet(data, writeOk, removeOk, fallbackOk) ==
    /\ storage' = setCache(storage, data, now, writeOk, removeOk, fallbackOk)
    /\ cLast' = "set"
    /\ cInput' = Some(data)
    /\ cSet' = [at |-> now, ok |-> writeOk, over |-> storage # None,
                removed |-> removeOk, fallback |-> fallbackOk,
                ended |-> setCacheEnds(writeOk, fallbackOk)]
    /\ cGot' = None /\ cEvict' = FALSE /\ cInfo' = NoInfo
    /\ UNCHANGED <<now, barVars, searchTerm, barLog, ctlVars, rankVars>>

CGet ==
    /\ cGot' = getCacheResult(storage, now)
    /\ storage' = getCacheStorage(storage, now)
    /\ cLast' = "get"
    /\ cEvict' = (/\ storage # None /\ "timestamp" \in DOMAIN storage[1]
                  /\ now - storage[1].timestamp > CACHE_EXPIRY)
    /\ cInfo' = NoInfo
    /\ UNCHANGED <<now, cInput, cSet, barVars, searchTerm, barLog, ctlVars, rankVars>>

CInfo ==
    /\ cInfo' = getCacheInfo(storage)
    /\ cLast' = "info"
    /\ cGot' = None /\ cEvict' = FALSE
    /\ UNCHANGED <<storage, now, cInput, cSet, barVars, searchTerm, barLog, ctlVars, rankVars>>

CClear ==
    /\ storage' = None
    /\ cLast' = "clear"
    /\ cInput' = None
    /\ cGot' = None /\ cEvict' = FALSE /\ cInfo' = NoInfo
    /\ UNCHANGED <<now, cSet, barVars, searchTerm, barLog, ctlVars, rankVars>>

CTick == /\ Tick
         /\ cLast' = "tick"
         /\ cGot' = None /\ cEvict' = FALSE /\ cInfo' = NoInfo
         /\ UNCHANGED <<storage, cInput, cSet, barVars, searchTerm, barLog, ctlVars, rankVars>>

CacheNext ==
    \/ \E data \in CacheInputs, o \in StorageOutcomes :
          CSet(data, o.writeOk, o.removeOk, o.fallbackOk)
    \/ CGet
    \/ CInfo
    \/ CClear
    \/ CTick

CacheSpec == CacheInit /\ [][CacheNext]_vars

(***************************************************************************)
(* BudgetSpec: setCache given items of any size.                           *)
(***************************************************************************)
MaxNoteLen == 12

\* row i with user_notes of n characters
SizedRow(i, n) == [Row(i) EXCEPT !.user_notes = [k \in 1..n |-> "x"]]

SizedItems == {SizedRow(i, n) : i \in 1..2, n \in {0, MaxNoteLen \div 2, MaxNoteLen}}

SizedInputs == {<<>>} \cup {<<a>> : a \in SizedItems}
                      \cup {<<a, b>> : a, b \in SizedItems}

BudgetNext ==
    \/ \E data \in SizedInputs, o \in StorageOutcomes :
          CSet(data, o.writeOk, o.removeOk, o.fallbackOk)
    \/ CGet
    \/ CClear

BudgetSpec == CacheInit /\ [][BudgetNext]_vars

(***************************************************************************)
(* StoreSpec: the cache service over a store that may also hold a value    *)
(* the running code did not write: damaged bytes, or the entry of another  *)
(* version of the app.                                                     *)
(***************************************************************************)
StoredList == sanitizeDataForCache(getVideoData("A", Ids))

ForeignValues(t) ==
    { Unparseable,
      [timestamp |-> t, version |-> 1],
      [data |-> StoredList, version |-> 1],
      [data |-> StoredList, timestamp |-> t, version |-> 0],
      [data |-> StoredList, timestamp |-> t, version |-> 2] }

\* the value under CACHE_KEY is replaced from outside the service
CPlant(value) ==
    /\ storage' = Some(value)
    /\ cLast' = "plant"
    /\ cInput' = None
    /\ cGot' = None /\ cEvict' = FALSE /\ cInfo' = NoInfo
    /\ UNCHANGED <<now, cSet, barVars, searchTerm, barLog, ctlVars, rankVars>>

StoreNext ==
    \/ \E value \in ForeignValues(now) : CPlant(value)
    \/ CacheNext

StoreSpec == CacheInit /\ [][StoreNext]_vars

(***************************************************************************)
(* DebounceSpec: the search bar (components/searchbar.tsx) and the App     *)
(* shell's debounced handleSearch (App.tsx).  A timer fires at any moment  *)
(* after it was armed, unless it was cleared first.                        *)
(***************************************************************************)
Queries == { <<>>,                        \* empty
             <<" ", " ">>,                \* blank
             <<"A", "b">>,                \* short
             <<"a", "b", "c", "d">>,      \* long
             <<"c", "d", "w", "x">> }     \* long

MaxLog == 3
MaxSearchId == 2
MaxSearches == 2
MaxCalls == 1
MaxMores == 2
MaxCards == 2 * PAGE_SIZE
MaxPage == 2
MaxInFlight == 2
MaxDeleted == 1

\* clearTimeout(timer); timer = setTimeout(..., delay) with a timer that forgets
\* to clear the pending callback
armTimer_noClear(pending, text) == pending \cup {text}

\* clearTimeout(timer); timer = setTimeout(() => f(text), delay)
armTimer(pending, text) == {text}

\* setSearchTerm(query), as DebounceSpec records it
Dispatch(query) ==
    /\ searchTerm' = query
    /\ dLog' = IF Len(dLog) < MaxLog THEN Append(dLog, query) ELSE dLog

Quiet == searchTimer = {} /\ appTimer = {}

handleSearchChange(text) ==
    /\ typedValue' = text
    /\ searchTimer' = armTimer(searchTimer, text)
    /\ dLast' = text
    /\ IF Quiet
       THEN dBurst' = "pure" /\ dLog' = <<>>
       ELSE /\ dBurst' = IF dBurst = "pure" /\ searchTimer # {} THEN "pure" ELSE "mixed"
            /\ dLog' = dLog
    /\ UNCHANGED <<appTimer, searchTerm>>

\* the 150 ms timer of handleSearchChange fires: onSearch(text), which is App's
\* debounced handleSearch
SearchTimerFires(text) ==
    /\ text \in searchTimer
    /\ searchTimer' = searchTimer \ {text}
    /\ appTimer' = armTimer(appTimer, text)
    /\ UNCHANGED <<typedValue, searchTerm, barLog>>

\* the 300 ms timer of App's debounce fires: setSearchTerm(query)
AppTimerFires(query) ==
    /\ query \in appTimer
    /\ appTimer' = appTimer \ {query}
    /\ Dispatch(query)
    /\ UNCHANGED <<typedValue, searchTimer, dBurst, dLast>>

\* SearchBar clearSearch (the clear button)
clearSearch ==
    /\ typedValue' = <<>>
    /\ appTimer' = armTimer(appTimer, <<>>)
    /\ IF Quiet THEN dLog' = <<>> ELSE dLog' = dLog
    /\ dBurst' = "mixed"
    /\ UNCHANGED <<searchTimer, searchTerm, dLast>>

\* App hardwareBackPress handler
BackPress ==
    /\ searchTerm # <<>>
    /\ IF Quiet THEN /\ searchTerm' = <<>>
                     /\ dLog' = <<(<<>>)>>
               ELSE Dispatch(<<>>)
    /\ dBurst' = "mixed"
    /\ UNCHANGED <<barVars, dLast>>

DebounceInit == /\ BarInit
                /\ storage = None /\ now = 0 /\ CacheLogInit /\ CtlIdle
                /\ RankIdle

DebounceNext ==
    \/ \E text \in Queries : handleSearchChange(text) /\ UNCHANGED <<cacheVars, cacheLog, ctlVars, rankVars>>
    \/ \E text \in Queries : SearchTimerFires(text) /\ UNCHANGED <<cacheVars, cacheLog, ctlVars, rankVars>>
    \/ \E query \in Queries : AppTimerFires(query) /\ UNCHANGED <<cacheVars, cacheLog, ctlVars, rankVars>>
    \/ clearSearch /\ UNCHANGED <<cacheVars, cacheLog, ctlVars, rankVars>>
    \/ BackPress /\ UNCHANGED <<cacheVars, cacheLog, ctlVars, rankVars>>

DebounceSpec == DebounceInit /\ [][DebounceNext]_vars

(***************************************************************************)
(* Spec: the Cards controller under the App shell.                         *)
(*                                                                         *)
(* A handler runs up to its first await of the network in one step, with   *)
(* the effects its state updates trigger; the reply of the network is a    *)
(* later step that works on what the handler's closure captured.           *)
(***************************************************************************)
\* the state that handlers and effects of the mounted Cards instance update
World == [cardsData |-> cardsData, filteredData |-> filteredData, error |-> error,
          searchIdRef |-> searchIdRef, currentPage |-> currentPage,
          hasMore |-> hasMore, loadingMore |-> loadingMore,
          isLoading |-> isLoading,
          searches |-> searches, fetches |-> fetches, mores |-> mores,
          deletes |-> deletes, storage |-> storage,
          staleApplied |-> FALSE, dropped |-> FALSE,
          dirty |-> FALSE]

Fits(w) == /\ w.searchIdRef <= MaxSearchId
           /\ Cardinality(w.searches) <= MaxSearches
           /\ Cardinality(w.fetches) <= MaxCalls
           /\ Cardinality(w.mores) <= MaxMores
           /\ Cardinality(w.deletes) <= MaxCalls
           /\ Len(w.cardsData) <= MaxCards
           /\ w.currentPage <= MaxPage
           /\ Cardinality(w.searches) + Cardinality(w.fetches)
                + Cardinality(w.mores) + Cardinality(w.deletes) <= MaxInFlight

Commit(w) ==
    /\ Fits(w)
    /\ cardsData' = w.cardsData /\ filteredData' = w.filteredData
    /\ error' = w.error /\ searchIdRef' = w.searchIdRef
    /\ currentPage' = w.currentPage /\ hasMore' = w.hasMore
    /\ loadingMore' = w.loadingMore /\ isLoading' = w.isLoading
    /\ searches' = w.searches /\ fetches' = w.fetches /\ mores' = w.mores
    /\ deletes' = w.deletes /\ storage' = w.storage
    /\ staleApplied' = w.staleApplied /\ dropped' = w.dropped

\* !searchTermRef.current.trim()
noActiveSearch(term) == trim(term) = <<>>

\* setCardsData(data); if (!searchTermRef.current.trim()) setFilteredData(data)
setCardsGuarded(w, data, term) ==
    [w EXCEPT !.cardsData = data,
              !.filteredData = IF noActiveSearch(term) THEN data ELSE @,
              !.dirty = TRUE]

\* setCardsData(data); setFilteredData(data)
setCardsBoth(w, data) ==
    [w EXCEPT !.cardsData = data, !.filteredData = data, !.dirty = TRUE]

\* doSearch that takes the backend branch from length 3 on
isShortQuery_below(term) == Len(term) < SHORT_QUERY_CUTOFF

\* searchTerm.length <= 3
isShortQuery(term) == Len(term) <= SHORT_QUERY_CUTOFF

\* the search effect: doSearch up to its await of performSearch.  Every
\* earlier call still in flight is marked as superseded by this dispatch.
doSearch(w, term, user) ==
    LET older == {[s EXCEPT !.superseded = TRUE] : s \in w.searches}
    IN  IF noActiveSearch(term)
        THEN [w EXCEPT !.filteredData = w.cardsData, !.searches = older,
                       !.isLoading = FALSE, !.dirty = FALSE]
        ELSE IF isShortQuery(term)
        THEN [w EXCEPT !.filteredData = localResults(w.cardsData, term),
                       !.searches = older, !.isLoading = FALSE, !.dirty = FALSE]
        ELSE [w EXCEPT !.searchIdRef = @ + 1,
                       !.isLoading = TRUE,
                       !.searches = older \cup
                          {[id |-> w.searchIdRef + 1, term |-> term,
                            cards |-> w.cardsData, user |-> user,
                            superseded |-> FALSE]},
                       !.dirty = FALSE]

\* the search effect runs again when cardsData was set
searchEffect(w, term, user) == IF w.dirty THEN doSearch(w, term, user) ELSE w

\* the re-sort effect
resortEffect(w, order, term) ==
    IF Len(w.cardsData) > 0
    THEN setCardsGuarded(w, sortCards(w.cardsData, order), term)
    ELSE w

\* fetchData up to its await of getVideoData
fetchData(w, forceRefresh, refresh, user, initialData, order, term, t) ==
    LET w1 == [w EXCEPT !.error = FALSE, !.isLoading = FALSE]
        cachedData == getCacheResult(w.storage, t)
        w2 == [w1 EXCEPT !.storage = getCacheStorage(w.storage, t)]
    IN  IF initialData # None /\ ~forceRefresh
        THEN setCardsGuarded(w1, sortCards(initialData[1], order), term)
        ELSE IF cachedData # None /\ ~forceRefresh
        THEN setCardsGuarded(w2, sortCards(cachedData[1], order), term)
        ELSE [w2 EXCEPT !.isLoading = TRUE, !.fetches = @ \cup
                 {[force |-> forceRefresh, order |-> order, cached |-> cachedData,
                   user |-> user, live |-> TRUE, refresh |-> refresh]}]

\* the calls of an instance that is unmounted: what they set on the instance
\* is lost, what they do to the cache and to the backend is not
unmountCalls(w) ==
    [w EXCEPT !.searches = {},
              !.fetches = {[f EXCEPT !.live = FALSE] : f \in @},
              !.mores = {[m EXCEPT !.live = FALSE] : m \in @},
              !.deletes = {[d EXCEPT !.live = FALSE] : d \in @}]

\* no Cards instance
unmounted(w) ==
    [unmountCalls(w) EXCEPT !.cardsData = <<>>, !.filteredData = <<>>,
                            !.error = FALSE, !.searchIdRef = 0,
                            !.currentPage = 0, !.hasMore = TRUE,
                            !.loadingMore = FALSE, !.isLoading = FALSE,
                            !.dirty = FALSE]

\* a Cards instance is created (first render, then its effects in the order
\* of the file, then the search effect again if cardsData was set)
mount(w, user, initialData, order, term, t) ==
    LET initial == IF initialData = None THEN <<>> ELSE initialData[1]
        fresh   == [unmounted(w) EXCEPT !.cardsData = initial,
                                        !.filteredData = initial]
        sorted  == resortEffect(fresh, order, term)
        fetched == fetchData(sorted, FALSE, FALSE, user, initialData, order, term, t)
        first   == doSearch([fetched EXCEPT !.cardsData = initial], term, user)
        settled == [first EXCEPT !.cardsData = fetched.cardsData,
                                 !.dirty = fetched.dirty]
    IN  searchEffect(settled, term, user)

EmptyWorld(stored) ==
    [cardsData |-> <<>>, filteredData |-> <<>>, error |-> FALSE,
     searchIdRef |-> 0, currentPage |-> 0, hasMore |-> TRUE,
     loadingMore |-> FALSE, isLoading |-> FALSE,
     searches |-> {}, fetches |-> {}, mores |-> {},
     deletes |-> {}, storage |-> stored, staleApplied |-> FALSE, dropped |-> FALSE,
          dirty |-> FALSE]

\* the cache entry an earlier run of the app by user A left behind
EarlierCache == setCache(None, getVideoData("A", Ids), 0, TRUE, TRUE, TRUE)

\* App ready: prepare() has read the cache into preloadedData if a user was
\* signed in, and Cards is mounted if there is a session
Init ==
    \E user \in {"none", "A"}, stored \in {None, EarlierCache},
       rows \in {Ids, {i \in Ids : OwnerOf(i) = "A"}} :
       LET preloaded == IF user = "none" THEN None ELSE getCacheResult(stored, 0)
           w == IF user = "none" THEN EmptyWorld(stored)
                ELSE mount(EmptyWorld(stored), user, preloaded, "newest", <<>>, 0)
       IN  /\ session = user /\ preloadedData = preloaded
           /\ sortOrder = "newest" /\ store = rows /\ now = 0
           /\ searchTerm = <<>>
           /\ cardsData = w.cardsData /\ filteredData = w.filteredData
           /\ error = w.error /\ searchIdRef = w.searchIdRef
           /\ currentPage = w.currentPage /\ hasMore = w.hasMore
           /\ loadingMore = w.loadingMore /\ isLoading = w.isLoading
           /\ searches = w.searches /\ fetches = w.fetches /\ mores = w.mores
           /\ deletes = w.deletes /\ storage = w.storage
           /\ staleApplied = w.staleApplied /\ dropped = w.dropped
           /\ CacheLogInit
           /\ typedValue = <<>> /\ searchTimer = {} /\ appTimer = {}
           /\ dBurst = "idle" /\ dLast = <<>> /\ dLog = <<>>
           /\ RankIdle

idleVars == <<cacheLog, barVars, barLog, rankVars>>

\* a new Cards instance replaces the mounted one, or is the first one
Remount(w, user) ==
    Commit(mount(w, user, preloadedData, sortOrder, searchTerm, now))

\* supabase.auth.onAuthStateChange with a session
SignIn(user) ==
    /\ session = "none"
    /\ session' = user
    /\ Remount(World, user)
    /\ UNCHANGED <<now, searchTerm, preloadedData, sortOrder, store, idleVars>>

\* supabase.auth.onAuthStateChange without a session
SignOut ==
    /\ session # "none"
    /\ session' = "none"
    /\ searchTerm' = <<>>
    /\ Commit(unmounted(World))
    /\ UNCHANGED <<now, preloadedData, sortOrder, store, idleVars>>

\* App handleRefresh / refreshCards: setReloadKey(prev => prev + 1)
Reload ==
    /\ session # "none"
    /\ Remount(World, session)
    /\ UNCHANGED <<now, searchTerm, appVars, idleVars>>

\* setSearchTerm(query) reaches Cards as a new searchTerm prop
SetSearchTerm(query) ==
    /\ session # "none"
    /\ query # searchTerm
    /\ searchTerm' = query
    /\ Commit(doSearch(World, query, session))
    /\ UNCHANGED <<now, appVars, idleVars>>

\* SettingsContext setSortOrder: the re-sort effect, then the fetch effect
\* (fetchData is a new callback), then the search effect
SetSortOrder(order) ==
    /\ session # "none"
    /\ order # sortOrder
    /\ sortOrder' = order
    /\ LET sorted  == resortEffect(World, order, searchTerm)
           fetched == fetchData(sorted, FALSE, FALSE, session, preloadedData, order,
                                searchTerm, now)
       IN  Commit(searchEffect(fetched, searchTerm, session))
    /\ UNCHANGED <<now, searchTerm, session, preloadedData, store, idleVars>>

\* loadMoreCards that does not look at hasMore
mayLoadMore_noHasMore == ~loadingMore /\ session # "none"

\* loadMoreCards that does not look at loadingMore
mayLoadMore_noLoading == hasMore /\ session # "none"

\* if (loadingMore || !hasMore || !userId) return
mayLoadMore == ~loadingMore /\ hasMore /\ session # "none"

\* loadMoreCards (onEndReached) up to its await of getVideoData
loadMoreCards ==
    /\ session # "none"
    /\ IF mayLoadMore
       THEN Commit([World EXCEPT !.loadingMore = TRUE,
                                 !.mores = @ \cup
                                    {[page |-> currentPage + 1, cards |-> cardsData,
                                      order |-> sortOrder, user |-> session,
                                      live |-> TRUE]}])
       ELSE Commit([World EXCEPT !.dropped = TRUE])
    /\ UNCHANGED <<now, searchTerm, appVars, idleVars>>

\* getVideoData answers loadMoreCards
MoreReplies(m, outcome) ==
    /\ m \in mores
    /\ LET newData == getVideoData(m.user, store)
           w0      == [World EXCEPT !.mores = @ \ {m}]
           sorted  == sortCards(m.cards \o newData, m.order)
           merged  == [setCardsGuarded(
                          [w0 EXCEPT !.hasMore = (Len(newData) = PAGE_SIZE),
                                     !.currentPage = m.page],
                          sorted, searchTerm)
                       EXCEPT !.storage = setCache(storage, sorted, now, TRUE, TRUE, TRUE),
                              !.loadingMore = FALSE]
           ended   == [w0 EXCEPT !.hasMore = FALSE, !.loadingMore = FALSE]
       IN  IF m.live
           THEN IF outcome = "ok" /\ Len(newData) > 0
                THEN Commit(searchEffect(merged, searchTerm, session))
                ELSE Commit(ended)
           ELSE IF outcome = "ok" /\ Len(newData) > 0
                THEN Commit([w0 EXCEPT !.storage = setCache(storage, sorted, now, TRUE, TRUE, TRUE)])
                ELSE Commit(w0)
    /\ UNCHANGED <<now, searchTerm, appVars, idleVars>>

\* handleRefresh (pull to refresh) up to the await of getVideoData
handleRefresh ==
    /\ session # "none"
    /\ Commit(fetchData([World EXCEPT !.storage = None], TRUE, TRUE, session,
                        preloadedData, sortOrder, searchTerm, now))
    /\ UNCHANGED <<now, searchTerm, appVars, idleVars>>

\* getVideoData answers fetchData; a fetchData called by handleRefresh is
\* followed by onRefresh(), which is App handleRefresh
FetchReplies(f, outcome) ==
    /\ f \in fetches
    /\ LET data    == getVideoData(f.user, store)
           w0      == [World EXCEPT !.fetches = @ \ {f}]
           \* finally { setIsLoading(false) }
           wl      == [w0 EXCEPT !.isLoading = FALSE]
           again   == getCacheResult(storage, now)
           ok      == searchEffect(
                        setCardsGuarded(
                          [wl EXCEPT !.hasMore = (Len(data) = PAGE_SIZE),
                                     !.currentPage = 0,
                                     !.storage = setCache(storage, data, now, TRUE, TRUE, TRUE)],
                          sortCards(data, f.order), searchTerm),
                        searchTerm, session)
           invalid == searchEffect(
                        IF f.cached # None
                        THEN setCardsBoth(wl, sortCards(f.cached[1], f.order))
                        ELSE setCardsBoth(wl, <<>>),
                        searchTerm, session)
           failed  == LET w1 == [wl EXCEPT !.error = TRUE,
                                           !.storage = getCacheStorage(storage, now)]
                      IN  IF again # None
                          THEN searchEffect(
                                 setCardsBoth(w1, sortCards(again[1], f.order)),
                                 searchTerm, session)
                          ELSE w1
           gone    == CASE outcome = "ok" ->
                             [w0 EXCEPT !.storage = setCache(storage, data, now, TRUE, TRUE, TRUE)]
                        [] outcome = "throw" ->
                             [w0 EXCEPT !.storage = getCacheStorage(storage, now)]
                        [] OTHER -> w0
           done    == IF ~f.live THEN gone
                      ELSE CASE outcome = "ok" -> ok
                             [] outcome = "invalid" -> invalid
                             [] OTHER -> failed
       IN  /\ outcome = "invalid" => data = <<>>
           /\ IF f.refresh /\ session # "none"
              THEN Remount(done, session)
              ELSE Commit(done)
    /\ UNCHANGED <<now, searchTerm, appVars, idleVars>>

\* handleDelete up to its await of deleteContent, for an item on display
handleDelete(itemId) ==
    /\ session # "none"
    /\ \E i \in 1..Len(filteredData) : filteredData[i].id = itemId
    /\ Cardinality(Ids \ store) < MaxDeleted
    /\ Commit([World EXCEPT !.deletes = @ \cup
                  {[id |-> itemId, cards |-> cardsData, user |-> session,
                    live |-> TRUE]}])
    /\ UNCHANGED <<now, searchTerm, appVars, idleVars>>

\* deleteContent answers handleDelete
DeleteReplies(d, deleted) ==
    /\ d \in deletes
    /\ LET w0      == [World EXCEPT !.deletes = @ \ {d}]
           newData == SelectSeq(d.cards, LAMBDA item : item.id # d.id)
       IN  IF deleted /\ d.live
           THEN Commit(searchEffect(setCardsBoth(w0, newData), searchTerm, session))
           ELSE Commit(w0)
    /\ store' = IF deleted /\ OwnerOf(d.id) = d.user THEN store \ {d.id} ELSE store
    /\ UNCHANGED <<now, searchTerm, session, preloadedData, sortOrder, idleVars>>

\* performSearch answers doSearch: results, or an error
SearchReplies(s, found, results) ==
    /\ s \in searches
    /\ LET w0 == [World EXCEPT !.searches = @ \ {s},
                                \* finally: only if this search is the latest
                                !.isLoading = IF searchIdRef = s.id THEN FALSE ELSE @]
       IN  IF found
           THEN IF searchIdRef # s.id
                THEN Commit(w0)
                ELSE Commit([w0 EXCEPT !.filteredData = results,
                                       !.staleApplied = s.superseded])
           ELSE Commit([w0 EXCEPT !.filteredData = localResults(s.cards, s.term)])
    /\ UNCHANGED <<now, searchTerm, appVars, idleVars>>

ClockTick == /\ Tick
             /\ UNCHANGED <<storage, cacheLog, barVars, searchTerm, barLog, ctlVars, rankVars>>

\* queries Cards is given: empty, short, two long ones, and long but blank
MainQueries == { <<>>, <<"A", "b", "c">>, <<"a", "b", "c", "d">>,
                 <<"b", "c", "d", "e">>, <<" ", " ", " ", " ">> }

\* App ready with user A signed in and the content table complete
SignedInInit == Init /\ session = "A" /\ store = Ids

(***************************************************************************)
(* SearchSpec: queries reach the mounted Cards instance while it loads,    *)
(* pages and refreshes.                                                    *)
(***************************************************************************)
SearchNext ==
    \/ \E query \in MainQueries : SetSearchTerm(query)
    \/ \E s \in searches, found \in BOOLEAN :
          \E results \in searchAnswers(s.user, store) : SearchReplies(s, found, results)
    \/ loadMoreCards
    \/ \E m \in mores, outcome \in {"ok", "throw"} : MoreReplies(m, outcome)
    \/ handleRefresh
    \/ \E f \in fetches, outcome \in {"ok", "invalid", "throw"} : FetchReplies(f, outcome)

SearchSpec == SignedInInit /\ [][SearchNext]_vars

(***************************************************************************)
(* PagingSpec: load, loadMore, delete and sort-order change, with no query *)
(* in the search bar.                                                      *)
(***************************************************************************)
PagingNext ==
    \/ \E order \in SortTypes : SetSortOrder(order)
    \/ loadMoreCards
    \/ \E m \in mores, outcome \in {"ok", "throw"} : MoreReplies(m, outcome)
    \/ \E f \in fetches, outcome \in {"ok", "invalid", "throw"} : FetchReplies(f, outcome)
    \/ \E itemId \in Ids : handleDelete(itemId)
    \/ \E d \in deletes, deleted \in BOOLEAN : DeleteReplies(d, deleted)

PagingSpec == SignedInInit /\ [][PagingNext]_vars

(***************************************************************************)
(* SessionSpec: users sign in and out on one device, reload, refresh and    *)
(* page while the cache ages.                                              *)
(***************************************************************************)
SessionNext ==
    \/ \E user \in Users : SignIn(user)
    \/ SignOut
    \/ Reload
    \/ loadMoreCards
    \/ \E m \in mores, outcome \in {"ok", "throw"} : MoreReplies(m, outcome)
    \/ handleRefresh
    \/ \E f \in fetches, outcome \in {"ok", "invalid", "throw"} : FetchReplies(f, outcome)
    \/ ClockTick

SessionSpec == Init /\ [][SessionNext]_vars

(***************************************************************************)
(* The ranking engine: the SQL function search_content.  A score is a      *)
(* fraction [n, d]; pg_trgm's similarity() and strict_word_similarity()    *)
(* are computed from the trigrams of the words of a text, and the full     *)
(* text test from its words.  Columns a row does not have (summary,        *)
(* channel_name, video_type) are null and drop out of greatest().          *)
(***************************************************************************)
\* similarity_threshold float default 0.1, in tenths
THRESHOLD_TENTHS == 1
\* max_results int default 100, scaled
MAX_RESULTS == 2

Frac(n, d) == [n |-> n, d |-> d]
Zero == Frac(0, 1)
One == Frac(1, 1)
Threshold == Frac(THRESHOLD_TENTHS, 10)

Greater(x, y) == x.n * y.d > y.n * x.d
SameScore(x, y) == x.n * y.d = y.n * x.d

\* greatest(...) of a non-empty set of scores
greatest(scores) == CHOOSE x \in scores : \A y \in scores : ~Greater(y, x)

\* pg_trgm and the 'simple' text search parser keep letters and digits only
IsWordChar(c) == c \notin {" ", "!"}

RECURSIVE WordsFrom(_, _)
\* the words of s, given the word being read
WordsFrom(s, word) ==
    IF s = <<>> THEN (IF word = <<>> THEN <<>> ELSE <<word>>)
    ELSE IF IsWordChar(Head(s)) THEN WordsFrom(Tail(s), Append(word, Lower(Head(s))))
    ELSE (IF word = <<>> THEN <<>> ELSE <<word>>) \o WordsFrom(Tail(s), <<>>)

Words(s) == WordsFrom(s, <<>>)

\* the trigrams of one word, padded with two blanks before and one after
WordTrigrams(w) ==
    LET padded == <<" ", " ">> \o w \o <<" ">>
    IN  {SubSeq(padded, i, i + 2) : i \in 1..(Len(padded) - 2)}

TrigramsOf(words) == UNION {WordTrigrams(words[i]) : i \in 1..Len(words)}

\* |A intersect B| / |A union B|, 0 when a side has no trigram
TrigramScore(a, b) ==
    IF a = {} \/ b = {} THEN Zero
    ELSE Frac(Cardinality(a \cap b), Cardinality(a \cup b))

\* pg_trgm similarity(text, text)
similarity(a, b) == TrigramScore(TrigramsOf(Words(a)), TrigramsOf(Words(b)))

\* pg_trgm strict_word_similarity(a, b): the best match of a with a run of
\* whole words of b
strict_word_similarity(a, b) ==
    LET wb == Words(b)
        ta == TrigramsOf(Words(a))
        extents == {SubSeq(wb, i, j) : i \in 1..Len(wb), j \in 1..Len(wb)}
    IN  greatest({Zero} \cup {TrigramScore(ta, TrigramsOf(e)) : e \in extents})

\* the searched text columns of a row that are not null
TextColumns(c) == {c.title, c.tags, c.user_notes}

\* to_tsvector('simple', ...) || ... @@ plainto_tsquery('simple', search_query)
fullTextMatch(c, search_query) ==
    LET lexemes == UNION {{Words(t)[i] : i \in 1..Len(Words(t))} : t \in TextColumns(c)}
        asked   == {Words(search_query)[i] : i \in 1..Len(Words(search_query))}
    IN  asked # {} /\ asked \subseteq lexemes

\* 1 - (c.title_embedding <=> embedding_vector(search_query)), null when the
\* row has no embedding; the distance is in tenths
vectorScore(c) == IF c.distance = None THEN None
                  ELSE Some(Frac(10 - c.distance[1], 10))

\* the similarity column of combined_search
rowSimilarity(c, search_query) ==
    greatest({similarity(t, search_query) : t \in TextColumns(c)}
             \cup {IF vectorScore(c) = None THEN Zero ELSE vectorScore(c)[1]}
             \cup {strict_word_similarity(t, search_query) : t \in TextColumns(c)})

\* the where clause of combined_search, without the owner test
rowMatches(c, search_query) ==
    \/ fullTextMatch(c, search_query)
    \/ \E t \in TextColumns(c) : Greater(similarity(t, search_query), Threshold)
    \/ c.distance # None /\ c.distance[1] < 10 - THRESHOLD_TENTHS

\* rows of combined_search that pass "where similarity > similarity_threshold"
selected(search_query, user_id_input, tbl) ==
    {c \in tbl : /\ c.user_id = user_id_input
                     /\ rowMatches(c, search_query)
                     /\ Greater(rowSimilarity(c, search_query), Threshold)}

\* order by similarity desc: any order of the rows in which no row comes
\* before a row of higher similarity (the order of ties is not specified)
orderings(rows, search_query) ==
    {o \in [1..Cardinality(rows) -> rows] :
        /\ \A c \in rows : \E i \in DOMAIN o : o[i] = c
        /\ \A i, j \in DOMAIN o :
              i < j => ~Greater(rowSimilarity(o[j], search_query),
                                rowSimilarity(o[i], search_query))}

\* search_content: the result lists it can return
search_content(search_query, user_id_input, tbl) ==
    {take(o, MAX_RESULTS) :
        o \in orderings(selected(search_query, user_id_input, tbl), search_query)}

(***************************************************************************)
(* RankSpec: search_content called on a content table.  embedding_vector   *)
(* is not part of the sources, so the cosine distance between a row's      *)
(* title_embedding and the query's embedding is an input: null for a row   *)
(* without an embedding, else a distance in tenths.                        *)
(***************************************************************************)
RankTitles == { <<"a", "b">>, <<"a", "b", " ", "c", "d">>, <<"!", "!">>,
                <<"x", "y">> }
RankQueries == { <<"a", "b">>, <<"c", "d">>, <<"!", "!">> }
Distances == {None, Some(5), Some(10)}

ContentRow(i, title, distance) ==
    [id |-> i, user_id |-> OwnerOf(i), title |-> title, tags |-> TagsOf(i),
     user_notes |-> NotesOf(i), date_added |-> i, distance |-> distance]

RankInit ==
    /\ \E title \in [Ids -> RankTitles], distance \in [Ids -> Distances] :
          content = {ContentRow(i, title[i], distance[i]) : i \in Ids}
    /\ lastQuery = <<>> /\ lastUser = "none" /\ returned = None
    /\ storage = None /\ now = 0 /\ CacheLogInit /\ BarInit /\ CtlIdle

\* supabase.rpc('search_content', ...) answered by the database
RankSearch(search_query, user_id_input) ==
    /\ \E rows \in search_content(search_query, user_id_input, content) :
          returned' = Some(rows)
    /\ lastQuery' = search_query
    /\ lastUser' = user_id_input
    /\ UNCHANGED <<content, cacheVars, cacheLog, barVars, searchTerm, barLog,
                   ctlVars>>

RankNext == \E q \in RankQueries, u \in Users : RankSearch(q, u)

RankSpec == RankInit /\ [][RankNext]_vars

(***************************************************************************)
(* Claims about the cache service (CacheSpec).                             *)
(***************************************************************************)
\* What the Cache Store contract promises for a list: the projections of its
\* first min(n, MAX_CACHE_SIZE) items, or of its first min(n, REDUCED_COUNT)
\* when those projections serialize to more than the byte budget.
ExpectedCached(input) ==
    LET n    == Len(input)
        full == [i \in 1..Min(n, MAX_CACHE_SIZE) |-> CacheItem(input[i])]
        k    == IF sizeInBytes(full) > BYTE_BUDGET
                THEN Min(n, REDUCED_COUNT) ELSE Min(n, MAX_CACHE_SIZE)
    IN  [i \in 1..k |-> CacheItem(input[i])]

C10_LazyEviction ==
    [][ /\ (cLast' = "get" /\ storage # None) =>
            IF now - storage[1].timestamp > CACHE_EXPIRY
            THEN cGot' = None /\ storage' = None
            ELSE cGot' = Some(storage[1].data) /\ storage' = storage
        /\ (cLast = "get" /\ cEvict /\ cLast' = "info") => ~cInfo'.exists
      ]_vars

\* an expired entry has just been read: null returned, entry gone
C10_Witness ==
    /\ cLast = "get" /\ cEvict /\ cGot = None /\ storage = None
    /\ cInput # None /\ now - cSet.at > CACHE_EXPIRY

(***************************************************************************)
(* Claims about the debounce chain (DebounceSpec).                         *)
(***************************************************************************)
\* C3: in a run of text-change events that starts with no timer pending and
\* in which every event arrives while the timer armed by the previous one is
\* still pending, no query is given to the cards controller other than the
\* text of the last event, none is given twice, and once no timer is pending
\* any more exactly one query has been given: the text of the last event.
C3_OneDispatch ==
    dBurst = "pure" =>
        /\ Len(dLog) <= 1
        /\ dLog # <<>> => dLog = <<dLast>> /\ searchTimer = {}
        /\ Quiet => dLog = <<dLast>>

\* three keystrokes with different texts, the timers have fired, one dispatch
C3_Witness ==
    /\ dBurst = "pure" /\ Quiet
    /\ dLog = <<dLast>> /\ searchTerm = dLast
    /\ dLast = <<"a", "b", "c", "d">>

(***************************************************************************)
(* Claims about search (SearchSpec).                                       *)
(***************************************************************************)
\* C1: when a long query q1 is at the ranking engine and a query q2 of any
\* class is dispatched before q1 is answered, the successful answer to q1 is
\* never written to the displayed result set.
C1_NoStaleResult == ~staleApplied

\* C2: a step that leaves Cards with a query of at most SHORT_QUERY_CUTOFF
\* characters (the empty query included) makes no call of the ranking engine,
\* whatever cardsData holds, and no call in flight carries such a query.
C2_ShortStaysLocal ==
    [][ /\ \A s \in searches' : Len(s.term) > SHORT_QUERY_CUTOFF
        /\ Len(searchTerm') <= SHORT_QUERY_CUTOFF =>
              \A s \in searches' : s.superseded \/ s \in searches ]_vars

\* a query of exactly SHORT_QUERY_CUTOFF characters was answered from
\* cardsData, with no call in flight
C2_Witness ==
    /\ session = "A" /\ searchTerm = <<"A", "b", "c">> /\ searches = {}
    /\ Len(cardsData) >= 2
    /\ filteredData = localResults(cardsData, searchTerm)
    /\ Len(filteredData) = 1

(***************************************************************************)
(* Claims about the in-memory collection (PagingSpec).                     *)
(***************************************************************************)
IsSortedBy(cards, order) ==
    \A i, j \in 1..Len(cards) : i < j => compare(cards[i], cards[j], order) <= 0

\* C4: in every reachable state cardsData is ordered by the active sort key:
\* newest = date_added descending, oldest = date_added ascending, modified =
\* updated_at (or date_added when there is none) descending.
C4_CollectionSorted == IsSortedBy(cardsData, sortOrder)

\* C5: cardsData never holds two items with the same id.
C5_NoDuplicateIds ==
    \A i, j \in 1..Len(cardsData) : i # j => cardsData[i].id # cardsData[j].id

FetchAnswered ==
    \E f \in fetches : /\ f.live /\ f \notin fetches'
                       /\ [f EXCEPT !.live = FALSE] \notin fetches'

OwnedBy(items, user) == \A i \in 1..Len(items) : OwnerOf(items[i].id) = user

\* C8: while a user is signed in, every item of cardsData, of filteredData, of
\* the data preloaded at app start and of the cache entry belongs to that
\* user, also when another user was signed in on the device before.
C8_NoCrossOwnerData ==
    \A user \in Users : session = user =>
        /\ OwnedBy(cardsData, user) /\ OwnedBy(filteredData, user)
        /\ preloadedData # None => OwnedBy(preloadedData[1], user)
        /\ storage # None => OwnedBy(storage[1].data, user)

(***************************************************************************)
(* Claims about the ranking engine (RankSpec).                             *)
(***************************************************************************)
ScoreOf(c) == rowSimilarity(c, lastQuery)

\* C11: in every list search_content returns, two rows of equal score appear
\* newest first (date_added descending).
C11_TiesNewestFirst ==
    returned # None =>
        \A i, j \in 1..Len(returned[1]) :
            (i < j /\ SameScore(ScoreOf(returned[1][i]), ScoreOf(returned[1][j])))
                => returned[1][i].date_added >= returned[1][j].date_added

Returned(c) == \E i \in 1..Len(returned[1]) : returned[1][i] = c

\* the lexical match is false, every fuzzy similarity is 0 and the vector
\* signal is 0
NoSignal(c, q) ==
    /\ ~fullTextMatch(c, q)
    /\ \A t \in TextColumns(c) : /\ SameScore(similarity(t, q), Zero)
                                 /\ SameScore(strict_word_similarity(t, q), Zero)
    /\ vectorScore(c) \in {None, Some(Frac(0, 10))}

\* every owned row whose title equals the query is returned, and no returned
\* row scores higher
ExactTitleOnTop ==
    \A c \in content :
        (c.user_id = lastUser /\ c.title = lastQuery)
            => /\ Returned(c)
               /\ \A i \in 1..Len(returned[1]) :
                     ~Greater(ScoreOf(returned[1][i]), ScoreOf(c))

\* no owned row without any signal is returned
NoSignalExcluded ==
    \A c \in content :
        (c.user_id = lastUser /\ NoSignal(c, lastQuery)) => ~Returned(c)

\* C12: after a search with a non-empty query, an owned row whose title equals
\* the query is in the result and no returned row scores higher, and an owned
\* row with no lexical, fuzzy or vector signal is not in the result.
C12_ExactIncludedNoSignalExcluded ==
    returned # None => (ExactTitleOnTop /\ NoSignalExcluded)

(***************************************************************************)
(* Claims about load, sort and delete (PagingSpec, SessionSpec).           *)
(***************************************************************************)
Count(list, x) == Cardinality({i \in 1..Len(list) : list[i] = x})

\* the two lists hold the same items, in any order
SameItems(a, b) ==
    /\ Len(a) = Len(b)
    /\ \A i \in 1..Len(a) : Count(a, a[i]) = Count(b, a[i])

IdsOf(list) == [i \in 1..Len(list) |-> list[i].id]

\* C13: a step that changes the active sort order issues no fetch and leaves
\* the ids of the held items (as a collection), the page cursor and hasMore as they were;
\* the collection is afterwards sorted by the new order.
C13_SortOnlyResorts ==
    [][sortOrder' # sortOrder =>
          /\ fetches' = fetches
          /\ SameItems(IdsOf(cardsData'), IdsOf(cardsData))
          /\ IdsOf(cardsData') = IdsOf(sortCards(cardsData, sortOrder'))
          /\ currentPage' = currentPage
          /\ hasMore' = hasMore]_vars

(***************************************************************************)
(* Further claims about the cache service (CacheSpec).                     *)
(***************************************************************************)
\* the entry under CACHE_KEY is the minimal fallback of the list: its first
\* MINIMAL_COUNT items at most, each with id, title and thumbnail_url only
IsMinimalEntry(stored, data) ==
    /\ stored # None
    /\ Len(stored[1].data) = Min(Len(data), MINIMAL_COUNT)
    /\ \A i \in 1..Len(stored[1].data) :
          /\ DOMAIN stored[1].data[i] = {"id", "title", "thumbnail_url"}
          /\ stored[1].data[i].id = data[i].id
          /\ stored[1].data[i].title = data[i].title
          /\ stored[1].data[i].thumbnail_url = data[i].thumbnail_url

IsCacheData(value) == DOMAIN value = {"data", "timestamp", "version"}

\* C18: a getCache that finds a value that is unparseable or not of the
\* CacheData shape returns null and removes the value, and a getCacheInfo
\* made next reports exists: false.
C18_CorruptIsAbsent ==
    [][ /\ (cLast' = "get" /\ storage # None /\ ~IsCacheData(storage[1]))
            => (cGot' = None /\ storage' = None)
        /\ (cLast = "plant" /\ ~IsCacheData(storage[1]) /\ cLast' = "get")
            => getCacheInfo(storage') = NoInfo
      ]_vars

\* C19: a getCache that finds an entry whose version is not the version
\* setCache writes returns null and removes the entry.
C19_VersionMismatchInvalidates ==
    [][(cLast' = "get" /\ storage # None /\ IsCacheData(storage[1])
          /\ storage[1].version # CacheData(<<>>, 0).version)
            => (cGot' = None /\ storage' = None)]_vars

\* a getCache has just returned the list written by the latest setCache
RoundTrip ==
    /\ cLast = "get" /\ cInput # None /\ cGot # None
    /\ (cSet.ok \/ cSet.fallback)

NoEmbedding(item) ==
    "title_embedding" \notin DOMAIN item /\ "content_embedding" \notin DOMAIN item

KeepsTimestamps(got, item) ==
    /\ {"date_added", "updated_at"} \subseteq DOMAIN got
    /\ got.date_added = item.date_added
    /\ got.updated_at = item.updated_at

\* C20 as stated: every item returned by getCache after a setCache has the id,
\* title, date_added and updated_at of the input item at its position and no
\* embedding field, whichever tier wrote it.
C20_RoundTripAllTiers ==
    RoundTrip =>
        \A i \in 1..Len(cGot[1]) :
            /\ cGot[1][i].id = cInput[1][i].id
            /\ cGot[1][i].title = cInput[1][i].title
            /\ KeepsTimestamps(cGot[1][i], cInput[1][i])
            /\ NoEmbedding(cGot[1][i])

\* C20: every item returned by getCache after a setCache has the id and title
\* of the input item at its position and no embedding field; it has the input
\* item's date_added and updated_at when the normal (full or reduced) write
\* stored it, and neither field when the minimal fallback stored it.
C20_RoundTrip ==
    RoundTrip =>
        \A i \in 1..Len(cGot[1]) :
            /\ cGot[1][i].id = cInput[1][i].id
            /\ cGot[1][i].title = cInput[1][i].title
            /\ NoEmbedding(cGot[1][i])
            /\ IF cSet.ok THEN KeepsTimestamps(cGot[1][i], cInput[1][i])
               ELSE DOMAIN cGot[1][i] = {"id", "title", "thumbnail_url"}

\* a list of items with embeddings and an updated_at was written by the normal
\* path and read back
C20_Witness ==
    /\ RoundTrip /\ cSet.ok
    /\ \E i \in 1..Len(cGot[1]) :
          /\ "title_embedding" \in DOMAIN cInput[1][i]
          /\ cInput[1][i].updated_at # 0
          /\ cGot[1][i].updated_at = cInput[1][i].updated_at

Holds(list, itemId) == \E i \in 1..Len(list) : list[i].id = itemId

\* C16: while the deleteContent call of a handleDelete of the mounted
\* controller is awaiting its answer, the item is neither in cardsData nor in
\* the displayed list.
C16_OptimisticDelete ==
    \A d \in deletes :
        d.live => (~Holds(cardsData, d.id) /\ ~Holds(filteredData, d.id))

\* a Cards instance is mounted: its fetch effect calls fetchData() with
\* forceRefresh = false
LoadStep == Reload \/ \E user \in Users : SignIn(user)

\* C14: a load with forceRefresh = false made while the cache holds an entry
\* that is not expired starts no getVideoData call, and the collection is
\* afterwards the items of that entry in the active sort order.
C14_LoadAdoptsCache ==
    [][(LoadStep /\ getCacheResult(storage, now) # None) =>
          /\ \A f \in fetches' : ~f.live
          /\ cardsData' = sortCards(getCacheResult(storage, now)[1], sortOrder)
      ]_vars

\* C15: when getVideoData answers a fetchData of the mounted controller with
\* a list, the collection afterwards holds exactly the items of that list, the
\* page cursor is 0, hasMore is true iff the list has PAGE_SIZE items, and the
\* cache holds what setCache keeps of the list, stamped with the current time.
C15_PageZeroReplaces ==
    [][\A f \in fetches :
          (f.live /\ FetchReplies(f, "ok")) =>
              LET data == getVideoData(f.user, store)
              IN  /\ SameItems(IdsOf(cardsData'), IdsOf(data))
                  /\ currentPage' = 0
                  /\ hasMore' = (Len(data) = PAGE_SIZE)
                  /\ storage' = Some(CacheData(ExpectedCached(data), now))
      ]_vars

(***************************************************************************)
(* Further claims about the search effect (SearchSpec).                    *)
(***************************************************************************)
\* C21: a step that dispatches an empty or blank query shows the whole
\* collection and starts no performSearch call, and with an empty or blank
\* query active the whole collection is shown whenever no search is in flight.
C21_EmptyShowsAll ==
    [][(session' # "none" /\ noActiveSearch(searchTerm')) =>
          /\ searchTerm' # searchTerm =>
                /\ filteredData' = cardsData'
                /\ \A s \in searches' : s.superseded
          /\ searches' = {} => filteredData' = cardsData'
      ]_vars

\* the text q occurs in the field of the item, letter case ignored
FieldHas(item, f, q) ==
    f \in DOMAIN item /\ includes(toLowerCase(item[f]), toLowerCase(q))

\* the items of the list with q in title, user_notes or tags, in list order
SubstringScan(list, q) ==
    SelectSeq(list, LAMBDA item : \/ FieldHas(item, "title", q)
                                  \/ FieldHas(item, "user_notes", q)
                                  \/ FieldHas(item, "tags", q))

\* C22: when performSearch fails for the search that no later dispatch has
\* superseded, the displayed list becomes the substring scan of the current
\* cardsData for that search's query, the error state is not entered, and
\* isLoading is false.
C22_FailedSearchFallsBack ==
    [][\A s \in searches :
          (~s.superseded /\ SearchReplies(s, FALSE, <<>>)) =>
              /\ filteredData' = SubstringScan(cardsData', s.term)
              /\ s.term = searchTerm'
              /\ error' = error
              /\ ~isLoading'
      ]_vars

\* the fallback has been applied: a long query is active, nothing is in
\* flight, and the displayed list is a proper, non-empty part of the
\* collection whose items come from the collection
C22_Witness ==
    /\ ~isShortQuery(searchTerm) /\ ~noActiveSearch(searchTerm)
    /\ searches = {} /\ fetches = {} /\ mores = {}
    /\ searchIdRef > 0 /\ ~isLoading /\ ~error
    /\ filteredData # <<>> /\ filteredData # cardsData
    /\ filteredData = SubstringScan(cardsData, searchTerm)
    /\ \A i \in 1..Len(filteredData) : "title_embedding" \notin DOMAIN filteredData[i]

\* C23: when performSearch fails for a search after a later backend search
\* with another query was dispatched, the displayed list is left as it is.
C23_StaleFallbackDropped ==
    [][\A s \in searches :
          (searchIdRef # s.id /\ s.term # searchTerm /\ SearchReplies(s, FALSE, <<>>))
              => filteredData' = filteredData
      ]_vars

\* C25: when performSearch fails for the search that no later dispatch has
\* superseded, the same search is issued again and the displayed list is left
\* as it is until that second call has answered.
C25_RetryOnce ==
    [][\A s \in searches :
          (~s.superseded /\ SearchReplies(s, FALSE, <<>>)) =>
              /\ \E again \in searches' : again.term = s.term /\ ~again.superseded
              /\ filteredData' = filteredData
      ]_vars

\* C26: the entry a setCache call has written serializes to no more than the
\* byte budget.
C26_WithinBudget ==
    (cLast = "set" /\ storage # None /\ (cSet.ok \/ cSet.fallback))
        => sizeInBytes(storage[1].data) <= BYTE_BUDGET


\* C24: when a page-0 fetch fails while the controller holds items, or a
\* cache entry that had not expired existed when the load began, the
\* controller does not enter the error state.
HadFallback(f) == cardsData # <<>> \/ f.cached # None
C24_FailureKeepsShowing ==
    [][\A f \in fetches :
          (f.live /\ HadFallback(f) /\ FetchReplies(f, "throw")) => ~error'
      ]_vars


\* C27: while a non-empty search term is active, no background operation
\* of the controller (load, load failure fallback, loadMore completion,
\* refresh) replaces the displayed search results by the whole collection.
BackgroundStep ==
    \/ loadMoreCards
    \/ handleRefresh
    \/ \E m \in mores, outcome \in {"ok", "throw"} : MoreReplies(m, outcome)
    \/ \E f \in fetches, outcome \in {"ok", "invalid", "throw"} : FetchReplies(f, outcome)
Overwritten ==
    /\ IdsOf(filteredData) # IdsOf(cardsData)
    /\ filteredData' = cardsData'
    /\ SubstringScan(cardsData', searchTerm) # cardsData'
C27_SearchResultsKept ==
    [][(~noActiveSearch(searchTerm) /\ BackgroundStep) => ~Overwritten]_vars


\* C28: once the input is empty (the clear button was pressed, or the text
\* was erased) and every pending timer has run, the query delivered to the
\* cards controller is the empty query: no earlier keystroke's text is
\* dispatched after the clear.
C28_ClearWins ==
    (typedValue = <<>> /\ searchTimer = {} /\ appTimer = {}) => searchTerm = <<>>


InCache(stored, itemId) ==
    stored # None /\ hasData(stored[1]) /\ Holds(stored[1].data, itemId)

\* C29: when a loadMore completes after an item was deleted from the store
\* and from the collection, its merge puts the deleted item neither back
\* into the collection nor into the cache.
C29_MergeAtCompletion ==
    [][\A m \in mores : \A itemId \in Ids \ store :
          (m.live /\ ~Holds(cardsData, itemId) /\ MoreReplies(m, "ok")) =>
              /\ ~Holds(cardsData', itemId)
              /\ ~InCache(storage', itemId)
      ]_vars


\* a load of page 0: the fetch effect calls fetchData, or getVideoData
\* answers it
PageZeroLoad ==
    \/ \E order \in SortTypes : SetSortOrder(order)
    \/ \E f \in fetches, outcome \in {"ok", "invalid", "throw"} : FetchReplies(f, outcome)

\* C30: an item whose delete the backend confirmed, and which the
\* collection no longer holds, is not brought back into the collection by
\* a later load, whether it adopts the cache entry, the preloaded data or
\* the answer of the store.
C30_DeletedStaysDeleted ==
    [][\A itemId \in Ids \ store :
          (~Holds(cardsData, itemId) /\ deletes = {} /\ PageZeroLoad)
              => ~Holds(cardsData', itemId)
      ]_vars

====
